---- MODULE Spec2Model ----
(***************************************************************************)
(* Folder Creator 25: name sanitizing, name uniquifying and the three      *)
(* archive builders of streamlit_app.py and of its variant                 *)
(* "streamlit_app 2.py" (src/unnamed/part_000).                            *)
(*                                                                         *)
(* A text is a sequence of characters; a character is a one-character      *)
(* string, or "U+xxxx" for a code point that has no printable form.        *)
(***************************************************************************)
EXTENDS Integers, Sequences, FiniteSets, TLC

VARIABLES
    app,            \* 1: streamlit_app.py, 2: "streamlit_app 2.py" (part_000)
    raw,            \* sanitize_name: the argument
    first,          \* sanitize_name(raw)
    second,         \* sanitize_name(sanitize_name(raw))
    sphase,         \* "raw" -> "once" -> "twice"
    existing,       \* the registry: the set `existing`
    inputs,         \* make_unique: the names passed so far, in call order
    returned,       \* make_unique: the names returned so far, in call order
    mode,           \* which builder runs: "names", "zip", "files", or "none"
    names,          \* build_zip_from_names: the argument
    zin,            \* the source archive / the uploaded files, in stored order
    include_files,  \* the builders' include_files argument
    do_sanitize,    \* the builders' do_sanitize argument
    idx,            \* number of loop iterations started
    pc,             \* position in the builder
    zout,           \* entries written to the output archive, in write order
    candidates,     \* source entries that passed the filters, in order
    out_bytes,      \* what the builder returned (NoBytes: nothing)
    ui              \* what the page shows after the build

vars == <<app, raw, first, second, sphase, existing, inputs, returned, mode, names,
          zin, include_files, do_sanitize, idx, pc, zout, candidates, out_bytes, ui>>

sanVars == <<raw, first, second, sphase>>
uniqVars == <<inputs, returned>>
buildVars == <<mode, names, zin, include_files, do_sanitize, idx, pc, zout,
               candidates, out_bytes, ui>>

(***************************************************************************)
(* Bounds of the model.                                                    *)
(***************************************************************************)
MaxLen == 3         \* longest text given to sanitize_name
MaxCalls == 4       \* make_unique calls against one registry
MaxNames == 3       \* longest list given to build_zip_from_names
MaxEntries == 3     \* most entries of a source archive / uploaded files

(***************************************************************************)
(* Python values: None, a str, an int.                                     *)
(***************************************************************************)
None == [tag |-> "none"]
PyText(s) == [tag |-> "str", val |-> s]
PyInt(n) == [tag |-> "int", val |-> n]

DigitChar == <<"0", "1", "2", "3", "4", "5", "6", "7", "8", "9">>

RECURSIVE Digits(_)
Digits(n) ==
    IF n < 10 THEN <<DigitChar[n + 1]>>
    ELSE Digits(n \div 10) \o <<DigitChar[(n % 10) + 1]>>

\* str(v)
PyStr(v) ==
    CASE v.tag = "none" -> <<"N", "o", "n", "e">>
      [] v.tag = "int" -> Digits(v.val)
      [] OTHER -> v.val

(***************************************************************************)
(* Character classes.                                                      *)
(***************************************************************************)
FORBIDDEN == {"\\", "/", ":", "*", "?", "\"", "<", ">", "|"}

\* [\x00-\x1f]
CONTROL ==
    {"U+0000", "U+0001", "U+0002", "U+0003", "U+0004", "U+0005", "U+0006", "U+0007",
     "U+0008", "U+0009", "U+000A", "U+000B", "U+000C", "U+000D", "U+000E", "U+000F",
     "U+0010", "U+0011", "U+0012", "U+0013", "U+0014", "U+0015", "U+0016", "U+0017",
     "U+0018", "U+0019", "U+001A", "U+001B", "U+001C", "U+001D", "U+001E", "U+001F"}

\* the characters str.strip() removes (str.isspace)
WHITESPACE ==
    {"U+0009", "U+000A", "U+000B", "U+000C", "U+000D", "U+001C", "U+001D", "U+001E",
     "U+001F", " ", "U+0085", "U+00A0", "U+1680", "U+2000", "U+2001", "U+2002",
     "U+2003", "U+2004", "U+2005", "U+2006", "U+2007", "U+2008", "U+2009", "U+200A",
     "U+2028", "U+2029", "U+202F", "U+205F", "U+3000"}

\* unicodedata.normalize("NFKC", c) of one character: the compatibility
\* decompositions of the characters the model uses; any other character of
\* the model is its own normal form.
NFKC1(c) ==
    CASE c = "U+00A0" -> <<" ">>                \* NO-BREAK SPACE
      [] c = "U+3000" -> <<" ">>                \* IDEOGRAPHIC SPACE
      [] c = "U+FF0F" -> <<"/">>                \* FULLWIDTH SOLIDUS
      [] c = "U+FF0E" -> <<".">>                \* FULLWIDTH FULL STOP
      [] c = "U+2026" -> <<".", ".", ".">>      \* HORIZONTAL ELLIPSIS
      [] c = "U+2100" -> <<"a", "/", "c">>      \* ACCOUNT OF
      [] OTHER -> <<c>>

RECURSIVE NFKC(_)
NFKC(s) == IF s = <<>> THEN <<>> ELSE NFKC1(Head(s)) \o NFKC(Tail(s))

RECURSIVE lstrip(_, _)
lstrip(s, chars) ==
    IF s # <<>> /\ Head(s) \in chars THEN lstrip(Tail(s), chars) ELSE s

RECURSIVE rstrip(_, _)
rstrip(s, chars) ==
    IF s # <<>> /\ s[Len(s)] \in chars THEN rstrip(SubSeq(s, 1, Len(s) - 1), chars)
    ELSE s

strip(s) == rstrip(lstrip(s, WHITESPACE), WHITESPACE)

\* _forbidden_pattern.sub("-", s)
forbidden_sub(s) ==
    [i \in 1..Len(s) |-> IF s[i] \in FORBIDDEN \cup CONTROL THEN "-" ELSE s[i]]

Untitled == <<"U", "n", "t", "i", "t", "l", "e", "d">>

\* name or "Untitled"
OrUntitled(s) == IF s = <<>> THEN Untitled ELSE s

\* a sanitize_name that normalizes last, after the strips and the substitution
sanitize_text_normalize_last(s) ==
    OrUntitled(NFKC(rstrip(forbidden_sub(strip(s)), {" ", "."})))

\* the body both variants share, from the normalize call on, on a str
sanitize_text(s) == OrUntitled(rstrip(forbidden_sub(strip(NFKC(s))), {" ", "."}))

\* streamlit_app.py: str(name) whatever name is
sanitize_name_1(v) == sanitize_text(PyStr(v))

\* "streamlit_app 2.py": None becomes "", another non-str becomes str(name)
sanitize_name_2(v) ==
    sanitize_text(IF v.tag = "str" THEN v.val
                  ELSE IF v.tag = "none" THEN <<>> ELSE PyStr(v))

sanitize_name(a, v) == IF a = 1 THEN sanitize_name_1(v) ELSE sanitize_name_2(v)

(***************************************************************************)
(* make_unique                                                             *)
(***************************************************************************)
Suffixed(base, i) == base \o <<" ", "(">> \o Digits(i) \o <<")">>

RECURSIVE Probe(_, _, _, _)
Probe(base, name, i, reg) ==
    IF name \in reg THEN Probe(base, Suffixed(base, i), i + 1, reg) ELSE name

\* a make_unique that tests the registry once (if, not while)
make_unique_if(name, reg) == IF name \in reg THEN Suffixed(name, 2) ELSE name

\* a make_unique that numbers every name
make_unique_always(name, reg) == Probe(name, Suffixed(name, 2), 3, reg)

\* the name make_unique returns; the caller's registry gains it
make_unique(name, reg) == Probe(name, name, 2, reg)

(***************************************************************************)
(* pathlib.PurePosixPath                                                   *)
(***************************************************************************)
RECURSIVE SplitSlash(_, _)
SplitSlash(s, cur) ==
    IF s = <<>> THEN <<cur>>
    ELSE IF Head(s) = "/" THEN <<cur>> \o SplitSlash(Tail(s), <<>>)
    ELSE SplitSlash(Tail(s), Append(cur, Head(s)))

RECURSIVE JoinSlash(_)
JoinSlash(parts) ==
    IF parts = <<>> THEN <<>>
    ELSE IF Len(parts) = 1 THEN parts[1]
    ELSE parts[1] \o <<"/">> \o JoinSlash(Tail(parts))

LeadingSlashes(s) == Len(s) - Len(lstrip(s, {"/"}))

\* PurePosixPath(s): exactly two leading slashes are kept as the root "//",
\* any other number makes the root "/"; empty and "." segments are dropped
PurePosixPath(s) ==
    [root |-> CASE LeadingSlashes(s) = 0 -> <<>>
                [] LeadingSlashes(s) = 2 -> <<"/", "/">>
                [] OTHER -> <<"/">>,
     parts |-> SelectSeq(SplitSlash(s, <<>>), LAMBDA x : x # <<>> /\ x # <<".">>)]

\* str(p)
PathStr(p) ==
    IF p.root = <<>> /\ p.parts = <<>> THEN <<".">>
    ELSE p.root \o JoinSlash(p.parts)

\* p.name
PathName(p) == IF p.parts = <<>> THEN <<>> ELSE p.parts[Len(p.parts)]

\* p / other
PathJoin(p, other) ==
    LET q == PurePosixPath(other)
    IN  IF q.root # <<>> THEN q ELSE [root |-> p.root, parts |-> p.parts \o q.parts]

\* the 1-based index of the last "." of name, 0 when it has none (rfind)
RECURSIVE RFindDot(_, _)
RFindDot(name, k) ==
    IF k = 0 THEN 0 ELSE IF name[k] = "." THEN k ELSE RFindDot(name, k - 1)

\* p.stem: the name up to its last ".", unless that "." is first or last
PathStem(p) ==
    LET name == PathName(p)
        k == RFindDot(name, Len(name))
    IN  IF 1 < k /\ k < Len(name) THEN SubSeq(name, 1, k - 1) ELSE name

(***************************************************************************)
(* Archive entries and the helpers of the builders.                        *)
(***************************************************************************)
Keep == <<".", "k", "e", "e", "p">>

Entry(path, data) == [path |-> path, data |-> data]

\* the entry _write_empty_folder writes for folder_path
write_empty_folder(folder_path) ==
    LET p == PathStr(PurePosixPath(folder_path))
        dir_path == IF p[Len(p)] = "/" THEN p ELSE p \o <<"/">>
    IN  Entry(dir_path \o Keep, <<>>)

StartsWith(s, prefix) ==
    Len(s) >= Len(prefix) /\ SubSeq(s, 1, Len(prefix)) = prefix

SYSTEM_DIR_PREFIXES == {<<"_", "_", "M", "A", "C", "O", "S", "X", "/">>}
SYSTEM_BASENAMES ==
    {<<".", "D", "S", "_", "S", "t", "o", "r", "e">>,
     <<"T", "h", "u", "m", "b", "s", ".", "d", "b">>}

\* info.is_dir()
is_dir(filename) == filename # <<>> /\ filename[Len(filename)] = "/"

\* a filter that forgets the SYSTEM_BASENAMES test
Skipped_no_basenames(filename) ==
    \/ is_dir(filename)
    \/ \E pref \in SYSTEM_DIR_PREFIXES : StartsWith(filename, pref)

\* the three `continue` tests of build_zip_from_filenames_zip
Skipped(filename) ==
    \/ is_dir(filename)
    \/ \E pref \in SYSTEM_DIR_PREFIXES : StartsWith(filename, pref)
    \/ PathName(PurePosixPath(filename)) \in SYSTEM_BASENAMES

\* sanitize_name(stem) if do_sanitize else (stem.strip() or "Untitled")
FolderBase(a, stem, san) ==
    IF san THEN sanitize_name(a, PyText(stem)) ELSE OrUntitled(strip(stem))

\* zin.read(name): the payload of the member the archive's name table holds
\* for name, which is the last member stored under that name
ZipReadByName(archive, filename) ==
    LET last == CHOOSE i \in 1..Len(archive) :
                    /\ archive[i].filename = filename
                    /\ \A j \in (i + 1)..Len(archive) : archive[j].filename # filename
    IN  archive[last].data

(***************************************************************************)
(* Values the variables of the operations that are not running hold.       *)
(***************************************************************************)
NoBytes == [tag |-> "nothing"]

SanIdle ==
    /\ raw = None /\ first = <<>> /\ second = <<>> /\ sphase = "idle"

UniqIdle ==
    /\ inputs = <<>> /\ returned = <<>>

BuildIdle ==
    /\ mode = "none" /\ names = <<>> /\ zin = <<>>
    /\ include_files = FALSE /\ do_sanitize = FALSE
    /\ idx = 0 /\ pc = "idle" /\ zout = <<>> /\ candidates = <<>>
    /\ out_bytes = NoBytes /\ ui = "none"

(***************************************************************************)
(* sanitize_name applied once and then to its own result.                  *)
(***************************************************************************)
SanChars ==
    {"a", "-", " ", ".", "/", "U+0000", "U+0009", "U+2028", "U+00A0", "U+FF0F",
     "U+2026"}

Texts(chars, n) == UNION {[1..k -> chars] : k \in 0..n}

RawNames == {None, PyInt(25)} \cup {PyText(s) : s \in Texts(SanChars, MaxLen)}

InitSanitize ==
    /\ app \in {1, 2}
    /\ raw \in RawNames
    /\ first = <<>> /\ second = <<>> /\ sphase = "raw"
    /\ existing = {}
    /\ UniqIdle /\ BuildIdle

SanitizeOnce ==
    /\ sphase = "raw"
    /\ first' = sanitize_name(app, raw)
    /\ sphase' = "once"
    /\ UNCHANGED <<app, raw, second, existing, uniqVars, buildVars>>

SanitizeAgain ==
    /\ sphase = "once"
    /\ second' = sanitize_name(app, PyText(first))
    /\ sphase' = "twice"
    /\ UNCHANGED <<app, raw, first, existing, uniqVars, buildVars>>

NextSanitize == SanitizeOnce \/ SanitizeAgain

SpecSanitize == InitSanitize /\ [][NextSanitize]_vars

(***************************************************************************)
(* A sequence of make_unique calls against one registry.                   *)
(***************************************************************************)
NameA == <<"A">>
NameB == <<"B">>

UniqPool ==
    {NameA, NameB, Suffixed(NameA, 2), Suffixed(NameA, 3),
     Suffixed(Suffixed(NameA, 2), 2)}

InitUnique ==
    /\ app \in {1, 2}
    /\ existing = {}
    /\ inputs = <<>> /\ returned = <<>>
    /\ SanIdle /\ BuildIdle

MakeUnique(n) ==
    /\ Len(inputs) < MaxCalls
    /\ LET r == make_unique(n, existing)
       IN  /\ existing' = existing \cup {r}
           /\ inputs' = Append(inputs, n)
           /\ returned' = Append(returned, r)
    /\ UNCHANGED <<app, sanVars, buildVars>>

NextUnique == \E n \in UniqPool : MakeUnique(n)

SpecUnique == InitUnique /\ [][NextUnique]_vars

(***************************************************************************)
(* The builders: build_zip_from_names, build_zip_from_filenames_zip and    *)
(* build_zip_from_uploaded_files, one loop iteration per step; reading a   *)
(* payload is a step of its own, since it is the step that can fail.       *)
(***************************************************************************)
NameN == <<"N">>

NamePool ==
    {None, PyText(<<>>), PyText(NameN), PyText(<<"N", "/">>),
     PyText(<<".", "/", "N">>), PyText(Suffixed(NameN, 2))}

NotesTxt == <<"n", "o", "t", "e", "s", ".", "t", "x", "t">>
ThumbsDb == <<"T", "h", "u", "m", "b", "s", ".", "d", "b">>
MacSidecar ==
    <<"_", "_", "M", "A", "C", "O", "S", "X", "/", ".", "_", "x", ".", "t", "x", "t">>

SourceNames ==
    {NotesTxt, ThumbsDb, MacSidecar,
     <<"d", "/">>,
     <<"d", "/">> \o NotesTxt,
     <<"d", "/", ".", "D", "S", "_", "S", "t", "o", "r", "e">>,
     <<"n", "o", "t", "e", "s", ".", "v", "2", ".", "p", "d", "f">>,
     <<" ", ".", "t", "x", "t">>,
     Keep,
     <<".">>}

SeqsUpTo(S, n) == UNION {[1..k -> S] : k \in 0..n}

\* the members of an archive with the given names: member i holds payload <<i>>
Members(fnames) == [i \in 1..Len(fnames) |-> [filename |-> fnames[i], data |-> <<i>>]]

Init ==
    /\ app \in {1, 2}
    /\ mode \in {"names", "zip", "files"}
    /\ mode = "files" => app = 1
    /\ IF mode = "names"
       THEN /\ names \in SeqsUpTo(NamePool, MaxNames)
            /\ zin = <<>>
            /\ include_files = FALSE /\ do_sanitize = FALSE
       ELSE /\ names = <<>>
            /\ \E fnames \in SeqsUpTo(SourceNames, MaxEntries) : zin = Members(fnames)
            /\ include_files \in BOOLEAN /\ do_sanitize \in BOOLEAN
    /\ pc = IF mode = "zip" THEN "open" ELSE "loop"
    /\ idx = 0 /\ existing = {} /\ zout = <<>> /\ candidates = <<>>
    /\ inputs = <<>> /\ returned = <<>>
    /\ out_bytes = NoBytes /\ ui = "none"
    /\ SanIdle

Bytes(entries) == [tag |-> "bytes", entries |-> entries]

\* what the page shows when the builder raises: "streamlit_app 2.py" catches
\* the exception and shows an error, streamlit_app.py lets it escape
Raised == IF app = 2 THEN "error" ELSE "exception"

\* for n in names: if not n: continue; make_unique; _write_empty_folder
NamesStep ==
    /\ mode = "names" /\ pc = "loop" /\ idx < Len(names)
    /\ LET n == names[idx + 1]
       IN  IF n = None \/ n.val = <<>>
           THEN UNCHANGED <<existing, inputs, returned, zout>>
           ELSE LET folder_name == make_unique(n.val, existing)
                IN  /\ existing' = existing \cup {folder_name}
                    /\ inputs' = Append(inputs, n.val)
                    /\ returned' = Append(returned, folder_name)
                    /\ zout' = Append(zout, write_empty_folder(folder_name))
    /\ idx' = idx + 1
    /\ UNCHANGED <<app, sanVars, mode, names, zin, include_files, do_sanitize, pc,
                   candidates, out_bytes, ui>>

\* return out_buf.getvalue(), and the page offers the download
Return ==
    /\ pc = "loop"
    /\ idx = IF mode = "names" THEN Len(names) ELSE Len(zin)
    /\ out_bytes' = Bytes(zout)
    /\ pc' = "done"
    /\ ui' = "download"
    /\ UNCHANGED <<app, sanVars, existing, uniqVars, mode, names, zin, include_files,
                   do_sanitize, idx, zout, candidates>>

\* zipfile.ZipFile(uploaded_zip) opens
ZipOpen ==
    /\ mode = "zip" /\ pc = "open"
    /\ pc' = "loop"
    /\ UNCHANGED <<app, sanVars, existing, uniqVars, mode, names, zin, include_files,
                   do_sanitize, idx, zout, candidates, out_bytes, ui>>

\* zipfile.ZipFile(uploaded_zip) raises: the builder returns nothing
ZipOpenFail ==
    /\ mode = "zip" /\ pc = "open"
    /\ pc' = "raised"
    /\ ui' = Raised
    /\ UNCHANGED <<app, sanVars, existing, uniqVars, mode, names, zin, include_files,
                   do_sanitize, idx, zout, candidates, out_bytes>>

\* the loop body up to the marker, shared by the archive and the files builder
Folder(filename, skip) ==
    LET basename == PathName(PurePosixPath(filename))
        stem == PathStem(PurePosixPath(basename))
    IN  IF skip
        THEN /\ idx' = idx + 1
             /\ UNCHANGED <<existing, inputs, returned, zout, candidates, pc>>
        ELSE LET name == FolderBase(app, stem, do_sanitize)
                 folder_name == make_unique(name, existing)
             IN  /\ existing' = existing \cup {folder_name}
                 /\ inputs' = Append(inputs, name)
                 /\ returned' = Append(returned, folder_name)
                 /\ zout' = Append(zout, write_empty_folder(folder_name))
                 /\ candidates' = Append(candidates,
                                         [basename |-> basename, stem |-> stem,
                                          member |-> idx + 1])
                 /\ IF include_files
                    THEN pc' = "read" /\ idx' = idx
                    ELSE pc' = "loop" /\ idx' = idx + 1

\* the destination and the bytes of a content entry
Content(data) ==
    LET folder_name == returned[Len(returned)]
        basename == candidates[Len(candidates)].basename
    IN  Entry(PathStr(PathJoin(PurePosixPath(folder_name), basename)), data)

\* for info in zin.infolist(): the filters, make_unique, _write_empty_folder
ZipStep ==
    /\ mode = "zip" /\ pc = "loop" /\ idx < Len(zin)
    /\ Folder(zin[idx + 1].filename, Skipped(zin[idx + 1].filename))
    /\ UNCHANGED <<app, sanVars, mode, names, zin, include_files, do_sanitize,
                   out_bytes, ui>>

\* data = zin.read(info.filename); zout.writestr(dest, data)
ZipRead ==
    /\ mode = "zip" /\ pc = "read"
    /\ zout' = Append(zout, Content(ZipReadByName(zin, zin[idx + 1].filename)))
    /\ idx' = idx + 1
    /\ pc' = "loop"
    /\ UNCHANGED <<app, sanVars, existing, uniqVars, mode, names, zin, include_files,
                   do_sanitize, candidates, out_bytes, ui>>

\* a reader that drops the unreadable member and goes on
ZipReadFailSkip ==
    /\ mode = "zip" /\ pc = "read"
    /\ idx' = idx + 1
    /\ pc' = "loop"
    /\ UNCHANGED <<app, sanVars, existing, uniqVars, mode, names, zin, include_files,
                   do_sanitize, zout, candidates, out_bytes, ui>>

\* zin.read(info.filename) raises: the exception leaves the builder
ZipReadFail ==
    /\ mode = "zip" /\ pc = "read"
    /\ pc' = "raised"
    /\ ui' = Raised
    /\ UNCHANGED <<app, sanVars, existing, uniqVars, mode, names, zin, include_files,
                   do_sanitize, idx, zout, candidates, out_bytes>>

\* for f in files: make_unique, _write_empty_folder (no filter)
FilesStep ==
    /\ mode = "files" /\ pc = "loop" /\ idx < Len(zin)
    /\ Folder(zin[idx + 1].filename, FALSE)
    /\ UNCHANGED <<app, sanVars, mode, names, zin, include_files, do_sanitize,
                   out_bytes, ui>>

\* data = f.read(); zout.writestr(dest, data)
FilesRead ==
    /\ mode = "files" /\ pc = "read"
    /\ zout' = Append(zout, Content(zin[idx + 1].data))
    /\ idx' = idx + 1
    /\ pc' = "loop"
    /\ UNCHANGED <<app, sanVars, existing, uniqVars, mode, names, zin, include_files,
                   do_sanitize, candidates, out_bytes, ui>>

Next ==
    \/ NamesStep \/ Return
    \/ ZipOpen \/ ZipOpenFail \/ ZipStep \/ ZipRead \/ ZipReadFail
    \/ FilesStep \/ FilesRead

Spec == Init /\ [][Next]_vars

(***************************************************************************)
(* Claims about make_unique (SpecUnique).                                  *)
(***************************************************************************)
Earlier(seq, j) == {seq[i] : i \in 1..(j - 1)}

\* C1: the names make_unique has returned are pairwise distinct, and the
\* registry is exactly the set of the names returned so far.
C1_DistinctAndRegistry ==
    /\ \A i, j \in 1..Len(returned) : i # j => returned[i] # returned[j]
    /\ existing = {returned[i] : i \in 1..Len(returned)}

\* A, A, then the name "A (2)" that the second call produced: it comes back
\* as "A (2) (2)".
C1_Witness ==
    \E j \in 2..Len(returned) :
        /\ inputs[j] = Suffixed(NameA, 2)
        /\ inputs[j] \in Earlier(returned, j)
        /\ returned[j] = Suffixed(Suffixed(NameA, 2), 2)

\* C2, as claimed: the call for the first occurrence of a name in the
\* sequence of inputs returns the name unmodified.
C2_FirstOccurrenceUnmodified ==
    \A j \in 1..Len(inputs) :
        inputs[j] \notin Earlier(inputs, j) => returned[j] = inputs[j]

\* C2, amended: a call whose name no earlier call has returned gets the
\* name back unmodified.
C2_UnreturnedUnmodified ==
    \A j \in 1..Len(inputs) :
        inputs[j] \notin Earlier(returned, j) => returned[j] = inputs[j]

\* A, A, B: B is new after a call that had to number its name.
C2_Witness ==
    /\ Len(returned) >= 3
    /\ returned[2] = Suffixed(NameA, 2)
    /\ inputs[3] = NameB /\ returned[3] = NameB

(***************************************************************************)
(* Claims about sanitize_name (SpecSanitize).                              *)
(***************************************************************************)
IsSanitizedName(s) ==
    /\ s # <<>>
    /\ \A i \in 1..Len(s) : s[i] \notin FORBIDDEN \cup CONTROL
    /\ s[Len(s)] \notin {" ", "."}

\* C3: the result of sanitize_name is non-empty, holds no forbidden
\* character and no control byte, and does not end with a space or a period.
C3_SanitizedName ==
    /\ sphase \in {"once", "twice"} => IsSanitizedName(first)
    /\ sphase = "twice" => IsSanitizedName(second)

\* a text in which NFKC brings in a forbidden character and trailing periods
C3_Witness ==
    /\ sphase = "once"
    /\ raw = PyText(<<"a", "U+FF0F", "U+2026">>)
    /\ first = <<"a", "-">>

\* C4, as claimed: sanitize_name(sanitize_name(x)) = sanitize_name(x) for
\* every text x.
C4_Idempotent ==
    (sphase = "twice" /\ raw.tag = "str") => second = first

IsMalformed(v) ==
    \/ v = None
    \/ v.tag = "str" /\ \A i \in 1..Len(v.val) : v.val[i] \in WHITESPACE

\* C6, as claimed: a null, empty or whitespace-only name is resolved to
\* "Untitled".
C6_MalformedIsUntitled ==
    (sphase \in {"once", "twice"} /\ IsMalformed(raw)) => first = Untitled

(***************************************************************************)
(* Claims about the builders (Spec).                                       *)
(***************************************************************************)
Filenames == [i \in 1..Len(zin) |-> zin[i].filename]

\* the members the loop has taken up so far
Started ==
    IF candidates # <<>> /\ candidates[Len(candidates)].member = idx + 1
    THEN idx + 1 ELSE idx

Marker(d) == Entry(d \o <<"/">> \o Keep, <<>>)

\* C5, as claimed: build_zip_from_names skips an empty or null name and
\* writes, for the k-th other name, the zero-length entry <u>/.keep with u
\* the k-th name make_unique returned; k times N gives N, N (2), ..., N (k);
\* an empty list gives an archive without entries.
C5_NamesLayout ==
    mode = "names" =>
        /\ Len(returned) =
               Len(SelectSeq(SubSeq(names, 1, idx),
                             LAMBDA n : n # None /\ n.val # <<>>))
        /\ existing = {returned[k] : k \in 1..Len(returned)}
        /\ zout = [k \in 1..Len(returned) |-> Marker(returned[k])]
        /\ (\A i \in 1..Len(names) : names[i] = PyText(NameN)) =>
               returned = [k \in 1..idx |-> IF k = 1 THEN NameN ELSE Suffixed(NameN, k)]
        /\ (pc = "done" /\ names = <<>>) => out_bytes = Bytes(<<>>)

Survives(f) ==
    /\ f = <<>> \/ f[Len(f)] # "/"
    /\ ~StartsWith(f, <<"_", "_", "M", "A", "C", "O", "S", "X", "/">>)
    /\ PathName(PurePosixPath(f)) \notin
           {<<".", "D", "S", "_", "S", "t", "o", "r", "e">>, ThumbsDb}

\* C7: reading a source archive yields, in stored order, the entries that
\* are no directory, do not start with __MACOSX/ and whose basename is
\* neither .DS_Store nor Thumbs.db, each with its basename and its stem; the
\* archive __MACOSX/._x.txt, Thumbs.db, notes.txt yields (notes.txt, notes).
C7_Candidates ==
    mode = "zip" =>
        LET kept == SelectSeq(SubSeq(Filenames, 1, Started), Survives)
        IN  /\ Len(candidates) = Len(kept)
            /\ \A k \in 1..Len(candidates) :
                   /\ candidates[k].basename = PathName(PurePosixPath(kept[k]))
                   /\ candidates[k].stem = PathStem(PurePosixPath(kept[k]))
                   /\ zin[candidates[k].member].filename = kept[k]
                   /\ \A i \in 1..Len(candidates[k].basename) :
                          candidates[k].basename[i] # "/"
                   /\ StartsWith(candidates[k].basename, candidates[k].stem)
            /\ (pc = "done" /\ Filenames = <<MacSidecar, ThumbsDb, NotesTxt>>) =>
                   candidates = <<[basename |-> NotesTxt,
                                   stem |-> <<"n", "o", "t", "e", "s">>,
                                   member |-> 3]>>

C7_Witness ==
    /\ mode = "zip" /\ pc = "done"
    /\ Filenames = <<MacSidecar, ThumbsDb, NotesTxt>>
    /\ Len(candidates) = 1

\* whether the content entry of candidate k has been written
HasContent(k) ==
    include_files /\ ~(k = Len(candidates) /\ pc \in {"read", "raised"})

RECURSIVE Layout(_)
Layout(k) ==
    IF k = 0 THEN <<>>
    ELSE Layout(k - 1) \o <<Marker(returned[k])>> \o
         (IF HasContent(k)
          THEN <<Entry(returned[k] \o <<"/">> \o candidates[k].basename,
                       zin[candidates[k].member].data)>>
          ELSE <<>>)

\* C8, as claimed: for each surviving entry, in order, the builder writes
\* the marker <d>/.keep and then, when include_files, the content entry
\* <d>/<basename> with the bytes of that source entry, and nothing else.
C8_MarkerThenContent ==
    mode = "zip" => zout = Layout(Len(candidates))

\* C9: when opening the archive or reading a payload fails, the builder
\* returns no bytes and the page offers no download; a build that returns
\* bytes has gone through every member and has left out no content entry.
C9_FailTheBatch ==
    /\ pc = "raised" => out_bytes = NoBytes /\ ui \in {"error", "exception"}
    /\ ui = "download" <=> out_bytes # NoBytes
    /\ (mode = "zip" /\ out_bytes # NoBytes) =>
           /\ out_bytes = Bytes(zout)
           /\ idx = Len(zin)
           /\ Len(zout) = (IF include_files THEN 2 ELSE 1) * Len(candidates)

\* a read that fails after entries of earlier members were written
C9_Witness ==
    /\ mode = "zip" /\ pc = "raised"
    /\ idx >= 1 /\ Len(zout) >= 3
    /\ out_bytes = NoBytes

\* C10, as claimed: the paths written to the output archive are pairwise
\* distinct.
C10_DistinctPaths ==
    \A i, j \in 1..Len(zout) : i # j => zout[i].path # zout[j].path

====
